---- MODULE Spec2Model ----
(***************************************************************************)
(* ZeroTier::RateLimiter (node/RateLimiter.hpp): a burstable rate limiter  *)
(* that keeps a credit balance, accrues it lazily from the wall clock and  *)
(* debits it on every gate() call.                                         *)
(*                                                                         *)
(* Numbers: the code computes in double; the model computes in integers    *)
(* (bytes, seconds and bytes/second are whole numbers), so every sum and   *)
(* product below is exact.  fmin/fmax are modelled on numbers only.        *)
(***************************************************************************)
EXTENDS Integers, FiniteSets, Sequences, TLC

\* ---------------------------------------------------------------- bounds
\* Largest clock value Utils::nowf() returns in the model (seconds).
MaxTime == 3
\* Largest Limit::bytesPerSecond.
MaxRate == 2
\* Largest Limit::maxBalance, and largest debt -Limit::minBalance.
MaxBal == 2

\* Largest bytes argument of gate(): one more than any ceiling.
MaxBytes == MaxBal + 1
\* Largest |preload| of init(): one beyond any ceiling or floor.
MaxPreload == MaxBal + 1
\* Cap of the ghost counter 'admitted'.
MaxAdmitted == MaxBal + MaxRate * MaxTime + 1

Times == 0..MaxTime
Preloads == (0 - MaxPreload)..MaxPreload
\* gate() takes a double: negative values are accepted as given.
Bytes == (0 - 1)..MaxBytes
BytesNonNeg == 0..MaxBytes

\* struct Limit
Limits ==
    [bytesPerSecond : 0..MaxRate,
     maxBalance : (0 - MaxBal)..MaxBal,
     minBalance : (0 - MaxBal)..MaxBal]

\* Limits as the header's comments ask for them: minBalance <= 0 <= maxBalance.
ConsistentLimits == {l \in Limits : l.minBalance <= 0 /\ 0 <= l.maxBalance}

\* Limits that break the precondition maxBalance > minBalance.
InconsistentLimits == {l \in Limits : l.maxBalance <= l.minBalance}

VARIABLES
    clock,      \* what Utils::nowf() returns when called now
    lastTime,   \* RateLimiter::_lastTime
    balance,    \* RateLimiter::_balance
    lim,        \* the Limit passed to the calls on this instance
    op,         \* the last call made: "init", "updateBalance" or "gate"
    prevOp,     \* the call made before it ("none" if there was none)
    preload,    \* argument of the last init()
    bytes,      \* argument of the last gate() (0 if the last call was not gate)
    allow,      \* gate()'s local 'allow', its return value
    refreshed,  \* return value of the last updateBalance()
    lt,         \* _lastTime as the last call found it (updateBalance's local 'lt')
    b0,         \* _balance as the last call found it
    t0,         \* clock value read by the last init()
    admitted,   \* sum of bytes over the gate() calls since init() that returned
                \* true (kept by Account, in the specifications that use it)
    now,        \* clock value the last call read (updateBalance's local 'now')
    regressed,  \* the last call read a clock value below _lastTime
    recovered,  \* the call before the last was regressed, and the last call
                \* read a clock value at or beyond the _lastTime that call found
    clean,      \* the regressed call was an updateBalance, or a gate that found
                \* _balance <= maxBalance and whose debit stayed >= minBalance
    cfBalance,  \* _balance of the counterfactual instance: the same calls, but
                \* the regressed call read the _lastTime it found, not the clock
    thr,        \* per thread: where it stands in gate() and its locals
    serialized  \* the callers serialize their calls on this instance

vars == <<clock, lastTime, balance, lim, op, prevOp, preload, bytes, allow,
          refreshed, lt, b0, t0, admitted, now, regressed, recovered, clean,
          cfBalance, thr, serialized>>

\* The threads that may call gate() on the one instance.
Threads == {1, 2}

\* A thread that is not inside a call.
IdleThread ==
    [pc |-> "idle", bytes |-> 0, lt |-> 0, now |-> 0, bal |-> 0, ret |-> 0,
     allow |-> FALSE]

\* ------------------------------------------------------------ arithmetic
fmin(a, b) == IF a < b THEN a ELSE b

fmax(a, b) == IF a > b THEN a ELSE b

\* updateBalance, line 113: the refreshed balance.
\* (Accrue_NoCeiling: the fmin against maxBalance left out.
\* Accrue_NoNegativeElapsed: a negative elapsed time is counted as zero.
\* Accrue_OneSecondAtMost: one call accrues for one second at most.)
Accrue_NoCeiling(l, bal, last, t) == bal + (l.bytesPerSecond * (t - last))

Accrue_NoNegativeElapsed(l, bal, last, t) ==
    fmin(l.maxBalance, bal + (l.bytesPerSecond * fmax(0, t - last)))

Accrue_OneSecondAtMost(l, bal, last, t) ==
    fmin(l.maxBalance, bal + (l.bytesPerSecond * fmin(1, t - last)))

Accrue(l, bal, last, t) ==
    fmin(l.maxBalance, bal + (l.bytesPerSecond * (t - last)))

\* gate, line 126: the verdict.
\* (Verdict_Strict: > written for >=.  Verdict_AnyCredit: a request is let
\* through whenever there is credit left, whatever its size.)
Verdict_Strict(ref, b) == ref > b

Verdict_AnyCredit(ref, b) == ref > 0 \/ ref >= b

Verdict(ref, b) == ref >= b

\* gate, line 127: the debit.
\* (Debit_NoFloor: the fmax against minBalance left out.  Debit_OnlyIfAllowed:
\* a denied call is not charged.  Debit_NotApplied: bytes is not subtracted.)
Debit_NoFloor(l, ref, b) == ref - b

Debit_OnlyIfAllowed(l, ref, b) ==
    IF ref >= b THEN fmax(l.minBalance, ref - b) ELSE ref

Debit_NotApplied(l, ref, b) == fmax(l.minBalance, ref)

Debit(l, ref, b) == fmax(l.minBalance, ref - b)

\* init, line 99: the balance init stores.
\* (InitBalance_Clamped: preload cut to the Limit's range.)
InitBalance_Clamped(l, p) == fmax(l.minBalance, fmin(l.maxBalance, p))

InitBalance(l, p) == p

\* init, line 98: the time init stores.
\* (InitTime_Zero: the accrual clock is reset to zero, not to the call time.)
InitTime_Zero(last, t) == 0

InitTime(last, t) == t

\* updateBalance, line 112: the time updateBalance stores.
\* (UpdateTime_Keep: _lastTime is not written.)
UpdateTime_Keep(last, t) == last

UpdateTime(last, t) == t

\* ------------------------------------------------------------ operations
\* RateLimiter(double preload): the instance as constructed at clock value c.
Constructed(l, c, p) ==
    /\ clock = c
    /\ lim = l
    /\ lastTime = InitTime(c, c)
    /\ balance = InitBalance(l, p)
    /\ op = "init"
    /\ prevOp = "none"
    /\ preload = p
    /\ bytes = 0
    /\ allow = FALSE
    /\ refreshed = p
    /\ lt = c
    /\ b0 = p
    /\ t0 = c
    /\ admitted = 0
    /\ now = c
    /\ regressed = FALSE
    /\ recovered = FALSE
    /\ clean = TRUE
    /\ cfBalance = InitBalance(l, p)
    /\ thr = [t \in Threads |-> IdleThread]
    /\ serialized = TRUE

\* What the counterfactual instance does in a call of updateBalance or gate.
\* stood: its _balance after the call when the call is regressed (it reads the
\* _lastTime it finds); caught: its _balance after the call that follows a
\* regressed one (it still holds the _lastTime lt the regressed call found);
\* isClean: what 'clean' records of a regressed call.
Counterfactual(stood, caught, isClean) ==
    /\ regressed' = (clock < lastTime)
    /\ recovered' = (regressed /\ clock >= lt)
    /\ clean' = IF clock < lastTime THEN isClean
                ELSE IF regressed /\ clock >= lt THEN clean ELSE TRUE
    /\ cfBalance' = IF clock < lastTime THEN stood
                    ELSE IF regressed /\ clock >= lt THEN caught ELSE balance'

\* init(preload)
init(p) ==
    /\ lastTime' = InitTime(lastTime, clock)
    /\ balance' = InitBalance(lim, p)
    /\ op' = "init"
    /\ prevOp' = op
    /\ preload' = p
    /\ bytes' = 0
    /\ allow' = FALSE
    /\ refreshed' = p
    /\ lt' = lastTime
    /\ b0' = balance
    /\ t0' = clock
    /\ admitted' = 0
    /\ now' = clock
    /\ regressed' = FALSE
    /\ recovered' = FALSE
    /\ clean' = TRUE
    /\ cfBalance' = balance'
    /\ UNCHANGED <<clock, lim, thr, serialized>>

\* updateBalance(lim)
updateBalance(l) ==
    /\ lt' = lastTime
    /\ lastTime' = UpdateTime(lastTime, clock)
    /\ balance' = Accrue(l, balance, lastTime, clock)
    /\ refreshed' = balance'
    /\ lim' = l
    /\ op' = "updateBalance"
    /\ prevOp' = op
    /\ bytes' = 0
    /\ allow' = FALSE
    /\ b0' = balance
    /\ now' = clock
    /\ Counterfactual(Accrue(l, balance, lastTime, lastTime),
                      Accrue(l, cfBalance, lt, clock),
                      TRUE)
    /\ UNCHANGED <<clock, preload, t0, admitted, thr, serialized>>

\* gate(lim, bytes)
gate(l, b) ==
    /\ lt' = lastTime
    /\ lastTime' = UpdateTime(lastTime, clock)
    /\ refreshed' = Accrue(l, balance, lastTime, clock)
    /\ allow' = Verdict(refreshed', b)
    /\ balance' = Debit(l, refreshed', b)
    /\ lim' = l
    /\ op' = "gate"
    /\ prevOp' = op
    /\ bytes' = b
    /\ b0' = balance
    /\ now' = clock
    /\ Counterfactual(Debit(l, Accrue(l, balance, lastTime, lastTime), b),
                      Debit(l, Accrue(l, cfBalance, lt, clock), b),
                      balance <= l.maxBalance /\ refreshed' - b >= l.minBalance)
    /\ UNCHANGED <<clock, preload, t0, thr, serialized>>

\* The caller's tally of what gate() let through: bytes is added when the call
\* returned true.  The tally is capped so that the model stays finite.
Account(b) ==
    /\ admitted' = IF allow' THEN admitted + b ELSE admitted
    /\ admitted' <= MaxAdmitted

\* Utils::nowf() moves forward between calls.
Tick ==
    /\ clock < MaxTime
    /\ clock' = clock + 1
    /\ UNCHANGED <<lastTime, balance, lim, op, prevOp, preload, bytes, allow,
                   refreshed, lt, b0, t0, admitted, now, regressed, recovered,
                   clean, cfBalance, thr, serialized>>

\* Utils::nowf() goes back between calls (a clock that is not monotonic).
Regress ==
    /\ clock > 0
    /\ clock' \in 0..(clock - 1)
    /\ UNCHANGED <<lastTime, balance, lim, op, prevOp, preload, bytes, allow,
                   refreshed, lt, b0, t0, admitted, now, regressed, recovered,
                   clean, cfBalance, thr, serialized>>

\* --------------------------------------------------------- specification
\* One instance, one fixed consistent Limit, a non-decreasing clock.
Init == \E l \in ConsistentLimits, p \in Preloads : Constructed(l, 0, p)

DoInit == \E p \in Preloads : init(p)

DoUpdateBalance == updateBalance(lim)

DoGate == \E b \in Bytes : gate(lim, b) /\ UNCHANGED admitted

Next == Tick \/ DoInit \/ DoUpdateBalance \/ DoGate

Spec == Init /\ [][Next]_vars

\* A caller that keeps preload at or below the ceiling, never asks for a
\* negative number of bytes, and tallies what gate() lets through.
InitThroughput ==
    \E l \in ConsistentLimits, p \in Preloads :
        p <= l.maxBalance /\ Constructed(l, 0, p)

DoInitBelowCeiling == \E p \in Preloads : p <= lim.maxBalance /\ init(p)

DoGateAccounted == \E b \in BytesNonNeg : gate(lim, b) /\ Account(b)

NextThroughput == Tick \/ DoInitBelowCeiling \/ DoUpdateBalance \/ DoGateAccounted

SpecThroughput == InitThroughput /\ [][NextThroughput]_vars

\* A caller that hammers gate() with requests above the ceiling, in a tight
\* loop: the clock does not move between the calls, and the loop never stops.
InitDeny ==
    \E l \in ConsistentLimits, c \in Times, p \in Preloads :
        p <= l.maxBalance /\ Constructed(l, c, p)

DoGateOversized ==
    \E b \in Bytes : b > lim.maxBalance /\ gate(lim, b) /\ UNCHANGED admitted

NextDeny == DoGateOversized

SpecDeny == InitDeny /\ [][NextDeny]_vars /\ WF_vars(DoGateOversized)

\* One instance used with a fixed Limit whose maxBalance is not above its
\* minBalance; bytes >= 0 and the clock is non-decreasing.
InitInconsistent ==
    \E l \in InconsistentLimits, p \in Preloads : Constructed(l, 0, p)

DoGateNonNeg == \E b \in BytesNonNeg : gate(lim, b) /\ UNCHANGED admitted

NextInconsistent == Tick \/ DoInit \/ DoUpdateBalance \/ DoGateNonNeg

SpecInconsistent == InitInconsistent /\ [][NextInconsistent]_vars

\* One instance as constructed, one fixed consistent Limit, a clock that may
\* go back.
NextRegress == Tick \/ Regress \/ DoUpdateBalance \/ DoGateNonNeg

SpecRegress == Init /\ [][NextRegress]_vars

\* ---------------------------------------------------- two threads in gate
\* Everything of the instance and of the call records that a thread's step
\* inside gate() leaves alone, _lastTime and _balance apart.
threadFrame ==
    UNCHANGED <<clock, lim, op, prevOp, preload, bytes, allow, refreshed, lt,
                b0, t0, admitted, now, regressed, recovered, clean, cfBalance,
                serialized>>

\* Callers that serialize let a thread enter gate() only while no other thread
\* is inside it.
MayEnter(t) ==
    serialized => \A u \in Threads \ {t} : thr[u].pc \in {"idle", "done"}

\* A thread calls gate(lim, b).
Enter(t, b) ==
    /\ thr[t].pc = "idle"
    /\ MayEnter(t)
    /\ thr' = [thr EXCEPT ![t].pc = "l111", ![t].bytes = b]
    /\ UNCHANGED <<lastTime, balance>>
    /\ threadFrame

\* line 111: double lt = _lastTime;
ReadLastTime(t) ==
    /\ thr[t].pc = "l111"
    /\ thr' = [thr EXCEPT ![t].pc = "l112", ![t].lt = lastTime]
    /\ UNCHANGED <<lastTime, balance>>
    /\ threadFrame

\* line 112: double now = _lastTime = Utils::nowf();
WriteLastTime(t) ==
    /\ thr[t].pc = "l112"
    /\ lastTime' = UpdateTime(lastTime, clock)
    /\ thr' = [thr EXCEPT ![t].pc = "l113", ![t].now = clock]
    /\ UNCHANGED balance
    /\ threadFrame

\* line 113, the read of _balance on the right-hand side.
ReadBalance(t) ==
    /\ thr[t].pc = "l113"
    /\ thr' = [thr EXCEPT ![t].pc = "l113w", ![t].bal = balance]
    /\ UNCHANGED <<lastTime, balance>>
    /\ threadFrame

\* line 113, the write of _balance; the value written is the value returned.
WriteBalance(t) ==
    /\ thr[t].pc = "l113w"
    /\ balance' = Accrue(lim, thr[t].bal, thr[t].lt, thr[t].now)
    /\ thr' = [thr EXCEPT ![t].pc = "l126", ![t].ret = balance']
    /\ UNCHANGED lastTime
    /\ threadFrame

\* line 126: bool allow = (updateBalance(lim) >= bytes).  updateBalance returns
\* the assignment to _balance by value: the build may hand back the value it
\* just computed or load _balance again, which under a race differ.
Test(t) ==
    /\ thr[t].pc = "l126"
    /\ \E v \in {thr[t].ret, balance} :
          thr' = [thr EXCEPT ![t].pc = "l127",
                             ![t].allow = Verdict(v, thr[t].bytes)]
    /\ UNCHANGED <<lastTime, balance>>
    /\ threadFrame

\* line 127, the read of _balance on the right-hand side.
ReadForDebit(t) ==
    /\ thr[t].pc = "l127"
    /\ thr' = [thr EXCEPT ![t].pc = "l127w", ![t].bal = balance]
    /\ UNCHANGED <<lastTime, balance>>
    /\ threadFrame

\* line 127, the write of _balance; line 128, return allow.
WriteDebit(t) ==
    /\ thr[t].pc = "l127w"
    /\ balance' = Debit(lim, thr[t].bal, thr[t].bytes)
    /\ thr' = [thr EXCEPT ![t].pc = "done"]
    /\ UNCHANGED lastTime
    /\ threadFrame

\* Time passes before the first of the calls is made; the calls themselves
\* fall within one clock value.
TickBeforeCalls ==
    /\ \A t \in Threads : thr[t].pc = "idle"
    /\ Tick

\* One instance as constructed, one fixed consistent Limit; each thread calls
\* gate() once, the callers serializing the calls or not.
InitRace ==
    \E l \in ConsistentLimits, p \in Preloads, s \in BOOLEAN :
        /\ l.minBalance <= p /\ p <= l.maxBalance
        /\ clock = 0
        /\ lim = l
        /\ lastTime = InitTime(0, 0)
        /\ balance = InitBalance(l, p)
        /\ op = "init"
        /\ prevOp = "none"
        /\ preload = p
        /\ bytes = 0
        /\ allow = FALSE
        /\ refreshed = p
        /\ lt = 0
        /\ b0 = p
        /\ t0 = 0
        /\ admitted = 0
        /\ now = 0
        /\ regressed = FALSE
        /\ recovered = FALSE
        /\ clean = TRUE
        /\ cfBalance = InitBalance(l, p)
        /\ thr = [t \in Threads |-> IdleThread]
        /\ serialized = s

ThreadStep(t) ==
    \/ \E b \in BytesNonNeg : Enter(t, b)
    \/ ReadLastTime(t)
    \/ WriteLastTime(t)
    \/ ReadBalance(t)
    \/ WriteBalance(t)
    \/ Test(t)
    \/ ReadForDebit(t)
    \/ WriteDebit(t)

NextRace == TickBeforeCalls \/ \E t \in Threads : ThreadStep(t)

SpecRace == InitRace /\ [][NextRace]_vars

\* -------------------------------------------------- a caller that waits
\* Enough time has passed since the last refresh to fill the balance.
Full ==
    lim.bytesPerSecond * (clock - lastTime) >= lim.maxBalance - balance

\* No call is made and Utils::nowf() moves on, until the balance can be full.
Idle ==
    /\ op = "init"
    /\ ~Full
    /\ clock' = clock + 1
    /\ UNCHANGED <<lastTime, balance, lim, op, prevOp, preload, bytes, allow,
                   refreshed, lt, b0, t0, admitted, now, regressed, recovered,
                   clean, cfBalance, thr, serialized>>

\* The first gate() after the idle period, for a request within the ceiling.
DoGateAfterIdle ==
    /\ op = "init"
    /\ Full
    /\ \E b \in Bytes :
          b <= lim.maxBalance /\ gate(lim, b) /\ UNCHANGED admitted

\* One instance as constructed with a balance at or above the floor, one
\* fixed consistent Limit with a positive rate; the caller waits, time keeps
\* advancing, then the caller asks once.
InitIdle ==
    \E l \in ConsistentLimits, p \in Preloads :
        l.bytesPerSecond > 0 /\ p >= l.minBalance /\ Constructed(l, 0, p)

NextIdle == Idle \/ DoGateAfterIdle

SpecIdle ==
    InitIdle /\ [][NextIdle]_vars /\ WF_vars(Idle) /\ WF_vars(DoGateAfterIdle)

\* ------------------------------------------------- a Limit for each call
\* The Limits the callers of this instance look up, call by call: no rate or
\* the highest, no ceiling or the highest, no debt or the deepest, and two
\* Limits whose ceiling is not above their floor.
CallLimits ==
    {l \in Limits :
        /\ l.bytesPerSecond \in {0, MaxRate}
        /\ \/ l.maxBalance \in {0, MaxBal} /\ l.minBalance \in {0 - MaxBal, 0}
           \/ l.maxBalance = 0 - 1 /\ l.minBalance = 1}

\* The instance has been called at most once since it was constructed.  With
\* a Limit per call and a clock that goes back, calls can take credit away
\* without end; the model follows the first two calls.
FirstCalls == prevOp \in {"none", "init"}

DoUpdateBalanceAnyLimit ==
    FirstCalls /\ \E l \in CallLimits : updateBalance(l)

DoGateAnyLimit ==
    FirstCalls /\ \E l \in CallLimits, b \in Bytes :
                     gate(l, b) /\ UNCHANGED admitted

\* One instance as constructed with any preload; each call is handed a Limit
\* of its own, consistent or not, and reads a clock that may have gone forward
\* or back.
InitAnyLimit == \E l \in CallLimits, p \in Preloads : Constructed(l, 0, p)

NextAnyLimit ==
    Tick \/ Regress \/ DoUpdateBalanceAnyLimit \/ DoGateAnyLimit

SpecAnyLimit == InitAnyLimit /\ [][NextAnyLimit]_vars

\* ------------------------------------------------- a caller that retries
\* The request thread 1 keeps asking for.
Request == thr[1].bytes

\* Utils::nowf() moves forward, but the caller comes back before the rate has
\* paid for the request.
TickShort ==
    /\ lim.bytesPerSecond * ((clock + 1) - lastTime) < Request
    /\ Tick

\* The caller asks again for the same number of bytes.
DoGateRetry == gate(lim, Request) /\ UNCHANGED admitted

\* One instance as constructed with a balance between the floor and zero, one
\* fixed consistent Limit; the caller retries gate() for a fixed request > 0 at
\* intervals too short for the rate to pay for it.
InitRetry ==
    \E l \in ConsistentLimits, p \in Preloads, b \in BytesNonNeg :
        /\ l.minBalance <= p /\ p <= 0
        /\ b > 0
        /\ clock = 0
        /\ lim = l
        /\ lastTime = InitTime(0, 0)
        /\ balance = InitBalance(l, p)
        /\ op = "init"
        /\ prevOp = "none"
        /\ preload = p
        /\ bytes = 0
        /\ allow = FALSE
        /\ refreshed = p
        /\ lt = 0
        /\ b0 = p
        /\ t0 = 0
        /\ admitted = 0
        /\ now = 0
        /\ regressed = FALSE
        /\ recovered = FALSE
        /\ clean = TRUE
        /\ cfBalance = InitBalance(l, p)
        /\ thr = [t \in Threads |->
                    IF t = 1 THEN [IdleThread EXCEPT !.bytes = b]
                    ELSE IdleThread]
        /\ serialized = TRUE

NextRetry == TickShort \/ DoGateRetry

SpecRetry == InitRetry /\ [][NextRetry]_vars

\* ------------------------------------------------------------ properties
InBounds == lim.minBalance <= balance /\ balance <= lim.maxBalance

\* The refresh of the last call, worked out from what the call found.
RefreshOfCall ==
    LET accrued == b0 + lim.bytesPerSecond * (now - lt)
    IN  IF accrued < lim.maxBalance THEN accrued ELSE lim.maxBalance

\* C1 as stated: after every init (any preload) and every gate (any bytes)
\* under a fixed consistent Limit, minBalance <= balance <= maxBalance.
C1_BoundAfterEveryCall == op \in {"init", "gate"} => InBounds

\* C1, amended: after every gate call with bytes >= 0, and after every init
\* whose preload lies in [minBalance, maxBalance], the balance lies in
\* [minBalance, maxBalance].
C1_BoundInvariant ==
    /\ (op = "gate" /\ bytes >= 0) => InBounds
    /\ (op = "init" /\ lim.minBalance <= preload /\ preload <= lim.maxBalance)
          => InBounds

\* C1 witness: a gate call with bytes > 0 that found an oversized preload and
\* a stale clock, cut the balance at the ceiling and then at the floor.
C1_Witness ==
    /\ op = "gate" /\ prevOp = "init"
    /\ b0 > lim.maxBalance
    /\ now > lt
    /\ bytes > 0
    /\ refreshed - bytes < lim.minBalance
    /\ balance = lim.minBalance

\* C2: since init(p) with p <= maxBalance at time t0, with bytes >= 0 on every
\* gate call and a non-decreasing clock, the bytes admitted so far never
\* exceed maxBalance + bytesPerSecond * (t - t0).
C2_ThroughputBound ==
    admitted <= lim.maxBalance + lim.bytesPerSecond * (clock - t0)

\* C2 witness: the bound is met exactly, by a burst of the whole ceiling
\* followed by an admitted transfer paid from credit accrued after init.
C2_Witness ==
    /\ op = "gate" /\ allow /\ bytes > 0
    /\ now > t0
    /\ lim.maxBalance > 0
    /\ admitted > lim.maxBalance
    /\ admitted = lim.maxBalance + lim.bytesPerSecond * (clock - t0)

\* C3: gate returns true exactly when the balance refreshed by that call,
\* min(maxBalance, balance + bytesPerSecond * (now - lastTime)), taken before
\* the debit, is >= bytes.
C3_AdmissionCorrectness == op = "gate" => (allow <=> RefreshOfCall >= bytes)

\* C3 witness: a call admitted with the refreshed balance equal to bytes, the
\* balance found being too low and the ceiling not yet reached.
C3_Witness ==
    /\ op = "gate" /\ allow
    /\ bytes > 0
    /\ b0 < bytes
    /\ RefreshOfCall = bytes
    /\ RefreshOfCall < lim.maxBalance

\* C4: after every gate call, admitted or denied, the balance equals
\* max(minBalance, refreshed - bytes), refreshed being the balance the call's
\* refresh produced.
C4_DebitAlwaysApplied ==
    op = "gate" =>
        /\ refreshed = RefreshOfCall
        /\ balance = IF refreshed - bytes > lim.minBalance
                     THEN refreshed - bytes ELSE lim.minBalance

\* C4 witness: a denied call that was debited in full, above the floor.
C4_Witness ==
    /\ op = "gate" /\ ~allow
    /\ bytes > 0
    /\ balance = refreshed - bytes
    /\ balance > lim.minBalance

\* C5: a refresh that follows a refresh with no debit in between, dt >= 0
\* later, changes the balance by exactly min(r * dt, maxBalance - balance
\* before) and sets lastTime to the time of the refresh.
C5_MonotonicAccrual ==
    (op = "updateBalance" /\ prevOp = "updateBalance" /\ now >= lt) =>
        /\ balance - b0 =
              IF lim.bytesPerSecond * (now - lt) < lim.maxBalance - b0
              THEN lim.bytesPerSecond * (now - lt)
              ELSE lim.maxBalance - b0
        /\ lastTime = now

\* C5 witness: the second of two refreshes accrues r * dt > 0 in full, below
\* the ceiling.
C5_Witness ==
    /\ op = "updateBalance" /\ prevOp = "updateBalance"
    /\ now > lt
    /\ balance = b0 + lim.bytesPerSecond * (now - lt)
    /\ balance > b0
    /\ balance < lim.maxBalance

\* C6: gate calls with bytes > maxBalance and no time between them are all
\* denied, and the balance reaches minBalance and then stays there.
C6_SaturatingDenial ==
    /\ [](op = "gate" => ~allow)
    /\ <>[](balance = lim.minBalance)

\* C6 witness: a denied oversized request that takes the balance from above
\* the floor down to exactly the floor.
C6_Witness ==
    /\ op = "gate" /\ ~allow
    /\ bytes > lim.maxBalance
    /\ b0 > lim.minBalance
    /\ balance = lim.minBalance

\* C7: init(x) stores exactly x in balance, whatever the Limit, and the clock
\* value of the call in lastTime, whatever the state was; the refresh that
\* follows accrues for the time since that init only.
C7_ReinitResets ==
    /\ op = "init" => (balance = preload /\ lastTime = now /\ now = t0)
    /\ (prevOp = "init" /\ op \in {"updateBalance", "gate"}) =>
          refreshed =
             IF preload + lim.bytesPerSecond * (now - t0) < lim.maxBalance
             THEN preload + lim.bytesPerSecond * (now - t0)
             ELSE lim.maxBalance

\* C7 witness: a re-init after a gate call, at a later clock value, with a
\* preload above the ceiling and different from the balance it replaces.
C7_Witness ==
    /\ op = "init" /\ prevOp = "gate"
    /\ preload > lim.maxBalance
    /\ b0 # preload
    /\ lt < lastTime
    /\ balance = preload

\* Between the two bounds of the Limit, whichever is the larger.
BetweenBounds ==
    /\ balance <= (IF lim.maxBalance > lim.minBalance
                   THEN lim.maxBalance ELSE lim.minBalance)
    /\ balance >= (IF lim.maxBalance < lim.minBalance
                   THEN lim.maxBalance ELSE lim.minBalance)

\* C8 as stated: with maxBalance <= minBalance, after every updateBalance and
\* every gate call the balance is neither above the larger nor below the
\* smaller of the two bounds.
C8_NeverOutsideBounds == op \in {"updateBalance", "gate"} => BetweenBounds

\* C8, amended: with maxBalance <= minBalance, the balance is neither above
\* the larger nor below the smaller bound after every gate call, and after
\* every updateBalance call that found the balance at or above maxBalance.
C8_InconsistentLimit ==
    /\ op = "gate" => (BetweenBounds /\ balance = lim.minBalance)
    /\ (op = "updateBalance" /\ b0 >= lim.maxBalance) =>
          (BetweenBounds /\ balance = lim.maxBalance)

\* C8 witness: the balance swings between the clamps: updateBalance finds it
\* at minBalance, left there by gate, and cuts it to the lower maxBalance.
C8_Witness ==
    /\ op = "updateBalance" /\ prevOp = "gate"
    /\ lim.maxBalance < lim.minBalance
    /\ b0 = lim.minBalance
    /\ balance = lim.maxBalance

\* C9 as stated: after a call that read a regressed clock, the next call that
\* reads a clock value at or beyond the original lastTime leaves the balance
\* the instance would have had, had the regressed call read no regression.
C9_RegressionSelfCorrects == recovered => balance = cfBalance

\* C9, amended: the same, when the regressed call is an updateBalance, or a
\* gate that found the balance at or below maxBalance and whose debit was
\* not cut at minBalance.
C9_RegressionSelfCorrectsWhenClean ==
    (recovered /\ clean) => balance = cfBalance

\* C9 witness: a regressed gate took credit away, and the gate call after it
\* gave all of it back.
C9_Witness ==
    /\ recovered /\ clean
    /\ prevOp = "gate" /\ op = "gate"
    /\ lim.bytesPerSecond > 0
    /\ refreshed > b0
    /\ refreshed < lim.maxBalance
    /\ balance = cfBalance

\* C10: with a non-decreasing clock lastTime never decreases, and every call
\* (a step that leaves the clock alone) stores the clock value it read.
C10_LastTimeMonotonic ==
    [][lastTime' >= lastTime /\ (clock' = clock => lastTime' = clock)]_vars

\* C10 witness: a call, made after a re-init, that moved lastTime forward to
\* the clock value it read.
C10_Witness ==
    /\ op \in {"updateBalance", "gate"} /\ prevOp = "init"
    /\ t0 > 0
    /\ lastTime > lt
    /\ lastTime = clock

\* Both threads have returned from gate().
BothDone == \A t \in Threads : thr[t].pc = "done"

\* What the two calls give when thread f runs gate() to its end before thread
\* g starts: the verdicts of threads 1 and 2 and the final balance.
SerialOutcome(f, g) ==
    LET acc == preload + lim.bytesPerSecond * (clock - t0)
        r1 == IF acc < lim.maxBalance THEN acc ELSE lim.maxBalance
        a1 == r1 >= thr[f].bytes
        d1 == IF r1 - thr[f].bytes > lim.minBalance
              THEN r1 - thr[f].bytes ELSE lim.minBalance
        r2 == IF d1 < lim.maxBalance THEN d1 ELSE lim.maxBalance
        a2 == r2 >= thr[g].bytes
        d2 == IF r2 - thr[g].bytes > lim.minBalance
              THEN r2 - thr[g].bytes ELSE lim.minBalance
    IN  [allow |-> [t \in Threads |-> IF t = f THEN a1 ELSE a2], balance |-> d2]

\* What the two calls gave.
Outcome == [allow |-> [t \in Threads |-> thr[t].allow], balance |-> balance]

IsSerial == Outcome \in {SerialOutcome(1, 2), SerialOutcome(2, 1)}

\* C11: when the callers serialize the two gate calls, the verdicts and the
\* final balance are those of one of the two serial orders; calls that are
\* interleaved without serialization reach an outcome that no serial order
\* gives (C11_Witness).
C11_SerializedCallsAreSerial == (serialized /\ BothDone) => IsSerial

\* C11 witness: without serialization both calls are admitted although their
\* bytes together exceed the refreshed balance, and no serial order gives
\* these verdicts and this final balance.
C11_Witness ==
    /\ ~serialized
    /\ BothDone
    /\ thr[1].allow /\ thr[2].allow
    /\ thr[1].ret = thr[2].ret
    /\ thr[1].bytes + thr[2].bytes > thr[1].ret
    /\ ~IsSerial

\* C12: with r > 0, a gate call made after an idle period dt with
\* r * dt >= maxBalance - balance refreshes the balance to exactly maxBalance,
\* returns true for its bytes <= maxBalance and leaves maxBalance - bytes; a
\* caller that waits while time advances is eventually admitted.
C12_RecoveryAfterIdle ==
    /\ []((op = "gate" /\ bytes <= lim.maxBalance
            /\ lim.bytesPerSecond * (now - lt) >= lim.maxBalance - b0)
          => (refreshed = lim.maxBalance /\ allow
                /\ balance = lim.maxBalance - bytes))
    /\ <>(op = "gate" /\ allow)

\* C12 witness: from debt, after a wait, a request for the whole ceiling is
\* admitted and leaves the balance at zero.
C12_Witness ==
    /\ op = "gate" /\ allow
    /\ b0 < 0
    /\ now > lt
    /\ bytes = lim.maxBalance /\ bytes > 0
    /\ refreshed = lim.maxBalance
    /\ balance = 0

\* C13: after init(p) with p > maxBalance, the first updateBalance or gate
\* call refreshes the balance to exactly maxBalance, and gate's verdict is
\* taken against maxBalance, not against p.
C13_OversizedPreloadClamped ==
    (prevOp = "init" /\ op \in {"updateBalance", "gate"}
        /\ preload > lim.maxBalance) =>
        /\ b0 = preload
        /\ refreshed = lim.maxBalance
        /\ op = "gate" => (allow <=> lim.maxBalance >= bytes)

\* C13 witness: a request that the preload would have covered is denied,
\* because the first refresh cut the preload down to the ceiling.
C13_Witness ==
    /\ prevOp = "init" /\ op = "gate"
    /\ preload > lim.maxBalance
    /\ bytes <= preload
    /\ bytes > lim.maxBalance
    /\ ~allow

\* C14: after a gate call with bytes >= 0 and a Limit with minBalance <= 0 <=
\* maxBalance, the balance lies within that Limit's bounds, whatever the
\* preload, the Limits of earlier calls and the clock values were; after
\* updateBalance the balance is at most the maxBalance of the call's Limit.
C14_PerCallLimitBound ==
    /\ (op = "gate" /\ bytes >= 0
          /\ lim.minBalance <= 0 /\ 0 <= lim.maxBalance) => InBounds
    /\ op = "updateBalance" => balance <= lim.maxBalance

\* C14 witness: gate, with a Limit of its own and a clock that went back,
\* finds the balance below its floor, left there by updateBalance, and ends
\* within its bounds.
C14_Witness ==
    /\ op = "gate" /\ prevOp = "updateBalance"
    /\ bytes >= 0
    /\ lim.minBalance <= 0 /\ 0 <= lim.maxBalance
    /\ b0 < lim.minBalance
    /\ now < lt
    /\ InBounds

\* C15: a gate call with bytes >= 0 that returns true leaves a balance >= 0,
\* equal to refreshed - bytes when minBalance <= 0; a gate call leaves the
\* balance below zero only when it returned false, bytes being larger than
\* the refreshed balance.
C15_AdmittedNeverCreatesDebt ==
    (op = "gate" /\ bytes >= 0) =>
        /\ allow => balance >= 0
        /\ (allow /\ lim.minBalance <= 0) => balance = refreshed - bytes
        /\ balance < 0 => (~allow /\ bytes > refreshed)

\* C15 witness: an admitted request that spends the whole refreshed balance,
\* under a Limit that would have allowed debt.
C15_Witness ==
    /\ op = "gate" /\ allow
    /\ bytes > 0
    /\ refreshed = bytes
    /\ lim.minBalance < 0
    /\ balance = 0

\* C16: gate with bytes > maxBalance returns false, in every state, for every
\* clock value and every Limit, the refreshed balance being at most maxBalance.
C16_OversizedNeverAdmitted ==
    (op = "gate" /\ bytes > lim.maxBalance) =>
        (~allow /\ refreshed <= lim.maxBalance)

\* C16 witness: the balance found would have covered the request, but the
\* request is above the ceiling and is denied.
C16_Witness ==
    /\ op = "gate" /\ ~allow
    /\ bytes > lim.maxBalance
    /\ b0 >= bytes
    /\ now >= lt

\* C17: from a balance between minBalance and zero, a caller that retries
\* gate for a fixed request s > 0 at intervals dt with r * dt < s is denied
\* on every call, and the balance never rises above its starting value.
C17_RetryStarves ==
    /\ op = "gate" => (~allow /\ bytes = Request
                         /\ lim.bytesPerSecond * (now - lt) < bytes)
    /\ balance <= preload

\* C17 witness: a retry of a request within the ceiling, under a positive
\* rate, is denied once more although credit had accrued since the last try.
C17_Witness ==
    /\ op = "gate" /\ prevOp = "gate" /\ ~allow
    /\ lim.bytesPerSecond > 0
    /\ bytes <= lim.maxBalance
    /\ now > lt
    /\ refreshed > b0
    /\ balance <= preload

\* C18: an updateBalance at t2 that follows an updateBalance at t1 <= t2
\* leaves the balance and lastTime that a single updateBalance at t2 would
\* have left, made in the state the first of the two found.
C18_RefreshPathIndependent ==
    [][(op = "updateBalance" /\ op' = "updateBalance" /\ clock' = clock) =>
          /\ balance' = (IF b0 + lim.bytesPerSecond * (clock - lt)
                              < lim.maxBalance
                         THEN b0 + lim.bytesPerSecond * (clock - lt)
                         ELSE lim.maxBalance)
          /\ lastTime' = clock]_vars

\* C18 witness: two refreshes at two later clock values, the second of which
\* added credit and reached the ceiling.
C18_Witness ==
    /\ op = "updateBalance" /\ prevOp = "updateBalance"
    /\ lt > t0
    /\ now > lt
    /\ balance > b0
    /\ balance = lim.maxBalance

====
